---- MODULE Spec2Model ----
(***************************************************************************)
(* Model of the scene intersection and recursive shading engine of the    *)
(* ray tracer: the Intersections container (src/src/intersection.rs) and   *)
(* the World (src/src/world.rs).                                           *)
(*                                                                         *)
(* Numbers.  The program computes with f64.  The model uses integers:      *)
(* a ray parameter t is an integer, a refractive index is written in       *)
(* tenths (10 is the vacuum index 1.0, 15 is 1.5), a colour is a single    *)
(* non-negative intensity (0 is BLACK).  Geometry (what Shape::intersect   *)
(* returns for a ray, the cosine between eye and normal, the local         *)
(* lighting of a point) is an input of the operations and is drawn from    *)
(* small sets.                                                             *)
(*                                                                         *)
(* Indices.  Rust vectors are 0-based, TLA+ sequences 1-based: position k  *)
(* of a sequence of the model is index k-1 of the program.  Shape ids      *)
(* (object_id) keep the program's values 0, 1, ...: shape id i is          *)
(* shapes[i+1].                                                            *)
(***************************************************************************)
EXTENDS Integers, Sequences, FiniteSets, Bags, TLC

VARIABLES
    xs,        \* Intersections.intersections: sequence of [t, object_id]
    hitRes,    \* what the last hit() returned: 0 (None) or a position of xs
    xop,       \* the last operation on the container
    shapes,    \* World.shapes: sequence of shapes
    lights,    \* World.lights: sequence of lights
    returned,  \* history: per add_shape call, the index returned and the shape passed
    rayTs,     \* input of the last World::intersect: rayTs[i+1] = shapes[i].intersect(ray)
    wop,       \* the last operation on the world
    pk,        \* prepare_computations' intersection_index, as a position of xs (0: none)
    comps,     \* the Computations prepare_computations returned
    stack,     \* the call stack of color_at and the functions it calls, top last
    ret,       \* the colour the last call that returned gave back
    ncalls,    \* history: the number of color_at calls made so far
    phase,     \* "idle" before the top-level color_at, "running", "done" after it
    arg,       \* the arguments of the operation applied on its own
    out,       \* what that operation returned
    fop        \* "idle", "called" before and "returned" after that operation

colorVars == <<stack, ret, ncalls, phase>>

fnVars == <<arg, out, fop>>

vars == <<xs, hitRes, xop, shapes, lights, returned, rayTs, wop, pk, comps,
          stack, ret, ncalls, phase, arg, out, fop>>

\* ------------------------------------------------------------------ bounds
MaxT == 2          \* ray parameters t range over -MaxT..MaxT
MaxLen == 3        \* intersections added to one container
MaxId == 1         \* object ids 0..MaxId in the container specification
MaxShapes == 2     \* shapes added to a world
MaxLights == 1     \* lights added to a world
MaxWT == 1         \* a shape meets a ray of the world specification at t in -MaxWT..MaxWT
MaxPrepLen == 4    \* intersections in a list handed to prepare_computations
PrepShapes == 3    \* glass shapes of the world prepare_computations is tried in
MaxDepth == 2      \* the largest budget the top-level color_at is called with

TVals == (0 - MaxT)..MaxT

\* ----------------------------------------------------- intersection.rs
\* Intersection::new(t, object_id)
Intersection(t, id) == [t |-> t, object_id |-> id]

\* Intersections::new(): an empty vector
IntersectionsEmpty == <<>>

\* Intersections::add: push at the end, nothing else
add(v, i) == Append(v, i)

\* The fold of hit(): acc is 0 (None) or the position of the best so far.
\* Entries with t < 0 are filtered out; an entry replaces the accumulator
\* unless its t is strictly greater than the accumulator's.
RECURSIVE hitFold(_, _, _)
hitFold(v, k, acc) ==
    IF k > Len(v) THEN acc
    ELSE IF ~(v[k].t >= 0) THEN hitFold(v, k + 1, acc)
    ELSE IF acc # 0 /\ v[k].t > v[acc].t THEN hitFold(v, k + 1, acc)
    ELSE hitFold(v, k + 1, k)

\* A plausible slip: the filter on t >= 0 is forgotten.
RECURSIVE hitFoldNoFilter(_, _, _)
hitFoldNoFilter(v, k, acc) ==
    IF k > Len(v) THEN acc
    ELSE IF acc # 0 /\ v[k].t > v[acc].t THEN hitFoldNoFilter(v, k + 1, acc)
    ELSE hitFoldNoFilter(v, k + 1, k)

hitNoFilter(v) == hitFoldNoFilter(v, 1, 0)

\* Intersections::hit: Option<&Intersection>, here 0 or the position referred to
hit(v) == hitFold(v, 1, 0)

\* ------------------------------------------- container specification
XsIdle ==
    /\ xs = IntersectionsEmpty
    /\ hitRes = 0
    /\ xop = "new"

WorldIdle ==
    /\ shapes = <<>>
    /\ lights = <<>>
    /\ returned = <<>>
    /\ rayTs = <<>>
    /\ wop = "new"

NoComps == [object_id |-> 0, t |-> 0, n1 |-> 0, n2 |-> 0, cos |-> 0]

PrepIdle ==
    /\ pk = 0
    /\ comps = NoComps

\* ---------------------------------------------------------- rationals
\* Colours and the Schlick reflectance are fractions n/d in lowest terms, d > 0.
RECURSIVE GCD(_, _)
GCD(a, b) == IF b = 0 THEN a ELSE GCD(b, a % b)

Abs(a) == IF a < 0 THEN 0 - a ELSE a

Rat(n, d) ==
    LET g == GCD(Abs(n), Abs(d))
        sgn == IF d < 0 THEN -1 ELSE 1
    IN [n |-> sgn * (n \div g), d |-> sgn * (d \div g)]

\* Each operation binds its operands once, as values; sums are taken over
\* the least common denominator.
RAdd(x, y) ==
    CHOOSE r \in {LET g == GCD(a.d, b.d)
                  IN Rat(a.n * (b.d \div g) + b.n * (a.d \div g), (a.d \div g) * b.d) :
                     a \in {x}, b \in {y}} : TRUE
RSub(x, y) ==
    CHOOSE r \in {LET g == GCD(a.d, b.d)
                  IN Rat(a.n * (b.d \div g) - b.n * (a.d \div g), (a.d \div g) * b.d) :
                     a \in {x}, b \in {y}} : TRUE
RMul(x, y) ==
    CHOOSE r \in {Rat(a.n * b.n, a.d * b.d) : a \in {x}, b \in {y}} : TRUE
RGt(x, y) == \E a \in {x}, b \in {y} : a.n * b.d > b.n * a.d
RInt(i) == [n |-> i, d |-> 1]

\* color.rs: BLACK
BLACK == RInt(0)

ColorIdle ==
    /\ stack = <<>>
    /\ ret = BLACK
    /\ ncalls = 0
    /\ phase = "idle"

\* no operation is being applied on its own
FnIdle ==
    /\ arg = <<>>
    /\ out = <<>>
    /\ fop = "idle"

XsInit == XsIdle /\ WorldIdle /\ PrepIdle /\ ColorIdle /\ FnIdle

XsAdd ==
    /\ Len(xs) < MaxLen
    /\ \E t \in TVals, id \in 0..MaxId :
          xs' = add(xs, Intersection(t, id))
    /\ hitRes' = 0
    /\ xop' = "add"
    /\ UNCHANGED <<shapes, lights, returned, rayTs, wop, pk, comps>>
    /\ UNCHANGED colorVars
    /\ UNCHANGED fnVars

XsHit ==
    /\ xop # "hit"
    /\ hitRes' = hit(xs)
    /\ xop' = "hit"
    /\ UNCHANGED <<xs, shapes, lights, returned, rayTs, wop, pk, comps>>
    /\ UNCHANGED colorVars
    /\ UNCHANGED fnVars

XsNext == XsAdd \/ XsHit

SpecXs == XsInit /\ [][XsNext]_vars

\* ------------------------------------------------------------------ C1
NonNeg(v) == {k \in 1..Len(v) : v[k].t >= 0}

\* C1: whatever the insertion order, hit() returns an intersection of the
\* collection whose t is the minimum of all t >= 0 (t = 0 counts), and
\* returns none exactly when every t is negative or the collection is empty.
C1_HitIsSmallestNonNegative ==
    xop = "hit" =>
        /\ (hitRes = 0) <=> (NonNeg(xs) = {})
        /\ hitRes # 0 =>
              /\ hitRes \in 1..Len(xs)
              /\ xs[hitRes].t >= 0
              /\ \A k \in NonNeg(xs) : xs[hitRes].t <= xs[k].t

\* a hit found behind later-added, larger and negative entries, added out of order
C1_Witness ==
    /\ xop = "hit"
    /\ Len(xs) = 3
    /\ xs[1].t > xs[3].t
    /\ xs[2].t < 0
    /\ xs[3].t = 0
    /\ hitRes = 3

\* ------------------------------------------------------------------ C7
\* C7: the sequence of intersections is ordered ascending by t no matter in
\* which order the intersections were inserted.
C7_AscendingByT ==
    \A k \in 1..(Len(xs) - 1) : xs[k].t <= xs[k + 1].t

\* ------------------------------------------------------------ materials
\* Material's optical coefficients.  material.rs of this source tree holds
\* only the Phong part; the optical coefficients and their accessors are
\* known from their uses in world.rs and from the specification.
Material(reflective, transparency, refractive_index) ==
    [reflective |-> reflective, transparency |-> transparency,
     refractive_index |-> refractive_index]

Matte == Material(0, 0, 10)
Mirror == Material(1, 0, 10)
Glass == Material(0, 1, 15)
MirrorGlass == Material(1, 1, 20)

Materials == {Matte, Mirror, Glass, MirrorGlass}

is_reflective(m) == m.reflective > 0
is_transparent(m) == m.transparency > 0
get_refractive_index(m) == m.refractive_index

\* Shape: the material is what the shading reads; what the primitive and the
\* transform do to a ray is the input rayTs of World::intersect.
Shape(m) == [material |-> m]
get_material(shape) == shape.material

PointLight == [intensity |-> 1]

\* ---------------------------------------- Intersections as world.rs uses it
\* world.rs builds the container with Intersections::new(iterator) and reads
\* it with hit_index() and Vec::from; intersection.rs of this source tree has
\* no such constructor.  From the specification: construction sorts by t
\* ascending, stable; hit_index is the first entry with t >= 0.
RECURSIVE insertByT(_, _)
insertByT(v, i) ==
    IF v = <<>> THEN <<i>>
    ELSE IF v[Len(v)].t <= i.t THEN Append(v, i)
    ELSE Append(insertByT(SubSeq(v, 1, Len(v) - 1), i), v[Len(v)])

RECURSIVE sortByT(_)
sortByT(v) ==
    IF v = <<>> THEN <<>>
    ELSE insertByT(sortByT(SubSeq(v, 1, Len(v) - 1)), v[Len(v)])

IntersectionsNew(items) == sortByT(items)

RECURSIVE firstNonNeg(_, _)
firstNonNeg(v, k) ==
    IF k > Len(v) THEN 0
    ELSE IF v[k].t >= 0 THEN k
    ELSE firstNonNeg(v, k + 1)

hit_index(v) == firstNonNeg(v, 1)

\* ------------------------------------------------------------- world.rs
\* A plausible slip: what lies behind the ray origin is dropped as invisible.
RECURSIVE nonNegativeOnly(_)
nonNegativeOnly(ts) ==
    IF ts = <<>> THEN <<>>
    ELSE IF ts[1] >= 0 THEN <<ts[1]>> \o nonNegativeOnly(Tail(ts))
    ELSE nonNegativeOnly(Tail(ts))

taggedNonNegative(i, ts) ==
    [k \in 1..Len(nonNegativeOnly(ts)) |-> Intersection(nonNegativeOnly(ts)[k], i)]

\* A plausible slip: the position in the sequence counted from 1 is used as id.
taggedFromOne(i, ts) == [k \in 1..Len(ts) |-> Intersection(ts[k], i + 1)]

\* the closure of World::intersect: shape i's t values, each tagged with i
tagged(i, ts) == [k \in 1..Len(ts) |-> Intersection(ts[k], i)]

\* flat_map over shapes.iter().enumerate(): shapes 0..n-1 in index order
RECURSIVE flatMap(_, _)
flatMap(ts, n) ==
    IF n = 0 THEN <<>>
    ELSE flatMap(ts, n - 1) \o tagged(n - 1, ts[n])

\* World::intersect, given what each shape's intersect returns for the ray
intersect(w, ts) == IntersectionsNew(flatMap(ts, Len(w)))

\* A plausible slip: the index is taken after the push.
add_shapeIdAfterPush(w, object) == [id |-> Len(w) + 1, shapes |-> Append(w, object)]

\* World::add_shape: the index returned and the new shape sequence
add_shape(w, object) == [id |-> Len(w), shapes |-> Append(w, object)]

\* World::add_light
add_light(ls, light) == Append(ls, light)

\* the loop body's match on containers: remove the first entry equal to the
\* object id if there is one, push the id otherwise
position(containers, id) ==
    IF \E p \in 1..Len(containers) : containers[p] = id
    THEN CHOOSE p \in 1..Len(containers) :
            /\ containers[p] = id
            /\ \A q \in 1..(p - 1) : containers[q] # id
    ELSE 0

remove(containers, p) ==
    SubSeq(containers, 1, p - 1) \o SubSeq(containers, p + 1, Len(containers))

\* A plausible slip: the exited shape is taken to be the innermost one (a pop).
containersStepPop(containers, id) ==
    IF position(containers, id) # 0
    THEN SubSeq(containers, 1, Len(containers) - 1)
    ELSE Append(containers, id)

\* A plausible slip: an exit is recognised only for the innermost shape.
containersStepInnermostOnly(containers, id) ==
    IF containers # <<>> /\ containers[Len(containers)] = id
    THEN SubSeq(containers, 1, Len(containers) - 1)
    ELSE Append(containers, id)

containersStep(containers, id) ==
    IF position(containers, id) # 0
    THEN remove(containers, position(containers, id))
    ELSE Append(containers, id)

\* containers after the loop has processed intersections 1..j
RECURSIVE containersAfter(_, _)
containersAfter(v, j) ==
    IF j = 0 THEN <<>>
    ELSE containersStep(containersAfter(v, j - 1), v[j].object_id)

\* n1 and n2 start at 1.0 and are overwritten when containers.last() is Some
lastIndex(w, containers) ==
    IF containers = <<>> THEN 10
    ELSE get_refractive_index(get_material(w[containers[Len(containers)] + 1]))

\* A plausible slip: n1 is read after the container list was updated.
prepare_computationsN1Late(w, v, k, cos) ==
    [object_id |-> v[k].object_id,
     t |-> v[k].t,
     n1 |-> lastIndex(w, containersAfter(v, k)),
     n2 |-> lastIndex(w, containersAfter(v, k)),
     cos |-> cos]

\* World::prepare_computations; k is intersection_index + 1.  Of the vectors
\* and points the shading reads only eyev.dot(normalv), the cosine between
\* the eye and the normal after the inside flip (so never negative); it is
\* the input cos, in tenths.
prepare_computations(w, v, k, cos) ==
    [object_id |-> v[k].object_id,
     t |-> v[k].t,
     n1 |-> lastIndex(w, containersAfter(v, k - 1)),
     n2 |-> lastIndex(w, containersAfter(v, k)),
     cos |-> cos]

\* what a shape's intersect can return: no t, one t (a plane), two t (t1 <= t2)
WTVals == (0 - MaxWT)..MaxWT

TsChoices ==
    {<<>>} \cup {<<t>> : t \in WTVals}
           \cup {<<p[1], p[2]>> : p \in {q \in WTVals \X WTVals : q[1] <= q[2]}}

\* ------------------------------------------------- world specification
WorldInit == XsIdle /\ WorldIdle /\ PrepIdle /\ ColorIdle /\ FnIdle

\* World::add_shape (&mut self: not while a ray is being traced)
AddShape ==
    /\ wop # "intersect"
    /\ Len(shapes) < MaxShapes
    /\ \E m \in {Matte, Glass} :
          LET r == add_shape(shapes, Shape(m)) IN
          /\ shapes' = r.shapes
          /\ returned' = Append(returned, [id |-> r.id, shape |-> Shape(m)])
    /\ wop' = "add_shape"
    /\ UNCHANGED <<xs, hitRes, xop, lights, rayTs, pk, comps>>
    /\ UNCHANGED colorVars
    /\ UNCHANGED fnVars

\* World::add_light (&mut self: not while a ray is being traced)
AddLight ==
    /\ wop # "intersect"
    /\ Len(lights) < MaxLights
    /\ lights' = add_light(lights, PointLight)
    /\ wop' = "add_light"
    /\ UNCHANGED <<xs, hitRes, xop, shapes, returned, rayTs, pk, comps>>
    /\ UNCHANGED colorVars
    /\ UNCHANGED fnVars

\* The head of World::color_at for one ray: intersect, hit_index and, when
\* there is a hit, prepare_computations at the hit.
WorldIntersect ==
    /\ wop # "intersect"
    /\ \E ts \in [1..Len(shapes) -> TsChoices] :
          LET v == intersect(shapes, ts) IN
          /\ rayTs' = ts
          /\ xs' = v
          /\ pk' = hit_index(v)
          /\ comps' = IF hit_index(v) # 0
                      THEN prepare_computations(shapes, v, hit_index(v), 10)
                      ELSE NoComps
    /\ wop' = "intersect"
    /\ UNCHANGED <<hitRes, xop, shapes, lights, returned>>
    /\ UNCHANGED colorVars
    /\ UNCHANGED fnVars

\* color_at returns: its locals (the intersections, the computations) are
\* dropped and the borrow of the world ends.
WorldReturn ==
    /\ wop = "intersect"
    /\ rayTs' = <<>>
    /\ xs' = IntersectionsEmpty
    /\ pk' = 0
    /\ comps' = NoComps
    /\ wop' = "return"
    /\ UNCHANGED <<hitRes, xop, shapes, lights, returned>>
    /\ UNCHANGED colorVars
    /\ UNCHANGED fnVars

WorldNext == AddShape \/ AddLight \/ WorldIntersect \/ WorldReturn

SpecWorld == WorldInit /\ [][WorldNext]_vars

\* ------------------------------------------------------------------ C8
Count(v, e) == Cardinality({k \in 1..Len(v) : v[k] = e})

\* C8: World.intersect returns exactly one intersection for every t that each
\* shape's intersect returns (none dropped, none duplicated, negative t
\* included), each carrying the index of the shape that produced it, which is
\* a valid index into the world's shape sequence.
C8_IntersectTagsEveryT ==
    wop = "intersect" =>
        /\ \A k \in 1..Len(xs) : xs[k].object_id \in 0..(Len(shapes) - 1)
        /\ \A i \in 0..(Len(shapes) - 1) : \A t \in WTVals :
              Count(xs, Intersection(t, i)) = Count(rayTs[i + 1], t)
        /\ \A k \in 1..Len(xs) : xs[k].t \in WTVals

\* two shapes met by the ray, one of them twice at the same negative t
C8_Witness ==
    /\ wop = "intersect"
    /\ Len(shapes) = 2
    /\ rayTs[1] = <<0, 1>>
    /\ rayTs[2] = <<-1, -1>>
    /\ Len(xs) = 4

\* ------------------------------------------------------------------ C9
\* C9: after any sequence of add_shape and add_light calls on a new World, the
\* k-th add_shape call returned k-1, the indices returned are pairwise
\* distinct, and every returned index still refers to the shape passed to the
\* call that returned it.
C9_IndicesAreStable ==
    /\ \A k \in 1..Len(returned) : returned[k].id = k - 1
    /\ \A j, k \in 1..Len(returned) : j # k => returned[j].id # returned[k].id
    /\ \A k \in 1..Len(returned) :
          /\ returned[k].id + 1 \in 1..Len(shapes)
          /\ shapes[returned[k].id + 1] = returned[k].shape

\* two different shapes and a light added, in some order
C9_Witness ==
    /\ Len(returned) = 2
    /\ returned[1].shape # returned[2].shape
    /\ Len(lights) = 1


\* ------------------------------- prepare_computations specification
\* The world of test_finding_n1_and_n2_at_various_intersections, for any number
\* of shapes: glass shapes of refractive indices 1.5, 2.0, 2.5, ...
PrepWorld == [i \in 1..PrepShapes |-> Shape(Material(0, 1, 10 + 5 * i))]

PrepInit ==
    /\ XsIdle
    /\ PrepIdle
    /\ ColorIdle
    /\ FnIdle
    /\ shapes = PrepWorld
    /\ lights = <<>>
    /\ returned = <<>>
    /\ rayTs = <<>>
    /\ wop = "new"

\* The caller builds a list that is sorted by t: the next intersection is at
\* the t of the last one or later.
PrepPush ==
    /\ Len(xs) < MaxPrepLen
    /\ \E id \in 0..(Len(shapes) - 1) :
       \E t \in IF xs = <<>> THEN {-1, 0}
                ELSE {xs[Len(xs)].t, xs[Len(xs)].t + 1} :
          xs' = IntersectionsNew(Append(xs, Intersection(t, id)))
    /\ pk' = 0
    /\ comps' = NoComps
    /\ wop' = "push"
    /\ out' = <<>>
    /\ UNCHANGED <<hitRes, xop, shapes, lights, returned, rayTs>>
    /\ UNCHANGED colorVars
    /\ UNCHANGED <<arg, fop>>

\* World::prepare_computations(xs, k - 1, ray)
PrepCall ==
    /\ wop = "push"
    /\ \E k \in 1..Len(xs) :
          /\ pk' = k
          /\ comps' = prepare_computations(shapes, xs, k, 10)
    /\ wop' = "prepare"
    /\ UNCHANGED <<xs, hitRes, xop, shapes, lights, returned, rayTs>>
    /\ UNCHANGED colorVars
    /\ UNCHANGED fnVars

\* World::prepare_computations called once more, for the same list and the
\* next position; out keeps what the call before returned
PrepCallFollowing ==
    /\ wop = "prepare"
    /\ pk < Len(xs)
    /\ out' = comps
    /\ pk' = pk + 1
    /\ comps' = prepare_computations(shapes, xs, pk + 1, 10)
    /\ wop' = "following"
    /\ UNCHANGED <<xs, hitRes, xop, shapes, lights, returned, rayTs>>
    /\ UNCHANGED colorVars
    /\ UNCHANGED <<arg, fop>>

PrepNext == PrepPush \/ PrepCall \/ PrepCallFollowing

SpecPrep == PrepInit /\ [][PrepNext]_vars

\* ------------------------------------------------------------------ C2
\* the claim's reading of the walk: a shape is entered on the first occurrence
\* of its index and exited on the next one, so after intersections 1..j the
\* shapes entered and not exited are those met an odd number of times, and an
\* open shape was entered at its last occurrence
Occ(v, j, id) == {q \in 1..j : v[q].object_id = id}

OpenAfter(v, j) == {q \in 1..j :
                       /\ Cardinality(Occ(v, j, v[q].object_id)) % 2 = 1
                       /\ \A r \in Occ(v, j, v[q].object_id) : r <= q}

MediumAfter(w, v, j) ==
    IF OpenAfter(v, j) = {} THEN 10
    ELSE LET q == CHOOSE q \in OpenAfter(v, j) : \A r \in OpenAfter(v, j) : r <= q
         IN w[v[q].object_id + 1].material.refractive_index

\* C2: for every target index k into a sorted intersection list, n1 is the
\* refractive index of the most recently entered shape that is still un-exited
\* after intersections 0..k-1 (1.0 if none), and n2 that of the most recently
\* entered still un-exited shape after intersection k itself (1.0 if none).
C2_RefractiveIndicesAtK ==
    wop = "prepare" =>
        /\ comps.n1 = MediumAfter(shapes, xs, pk - 1)
        /\ comps.n2 = MediumAfter(shapes, xs, pk)
        /\ comps.object_id = xs[pk].object_id

\* the target is the exit of an outer shape while an inner shape, entered
\* later, is still open
C2_Witness ==
    /\ wop = "prepare"
    /\ pk = 3
    /\ xs[1].object_id = 0
    /\ xs[2].object_id = 1
    /\ xs[3].object_id = 0
    /\ comps.n1 = 20
    /\ comps.n2 = 20

\* ----------------------------------------------------------------- C10
\* the ray starts inside shape s and no other shape is around it: s is met
\* once behind the origin and once before it, and every other shape is met
\* an even number of times behind the origin and not at all up to s's exit
StartsInside(s) ==
    /\ Len(rayTs[s + 1]) = 2
    /\ rayTs[s + 1][1] < 0
    /\ rayTs[s + 1][2] > 0
    /\ is_transparent(get_material(shapes[s + 1]))
    /\ \A o \in (0..(Len(shapes) - 1)) \ {s} :
          /\ Cardinality({k \in 1..Len(rayTs[o + 1]) : rayTs[o + 1][k] < 0}) % 2 = 0
          /\ \A k \in 1..Len(rayTs[o + 1]) :
                rayTs[o + 1][k] < 0 \/ rayTs[o + 1][k] > rayTs[s + 1][2]

\* C10: intersections with negative t are never chosen as the hit but are
\* still walked by the refractive bookkeeping: for a ray that starts inside a
\* transparent shape, the hit is the exit intersection and
\* prepare_computations there gives n1 = the shape's refractive index, n2 = 1.0.
C10_NegativeTKeptForBookkeeping ==
    wop = "intersect" =>
        /\ pk # 0 => xs[pk].t >= 0
        /\ \A s \in 0..(Len(shapes) - 1) :
              StartsInside(s) =>
                  /\ pk # 0
                  /\ xs[pk] = Intersection(rayTs[s + 1][2], s)
                  /\ comps.object_id = s
                  /\ comps.n1 = get_refractive_index(get_material(shapes[s + 1]))
                  /\ comps.n2 = 10

\* the ray starts inside a glass shape; the other shape lies behind the origin
C10_Witness ==
    /\ wop = "intersect"
    /\ Len(shapes) = 2
    /\ shapes[2] = Shape(Glass)
    /\ rayTs[2] = <<-1, 1>>
    /\ rayTs[1] = <<-1, -1>>
    /\ StartsInside(1)
    /\ comps.n1 = 15

\* ======================================================== color_at
\* exact square root of a fraction; the inputs of the model keep it exact
Sqrt(i) == CHOOSE r \in 0..i : r * r = i
RSqrt(x) == CHOOSE r \in {[n |-> Sqrt(a.n), d |-> Sqrt(a.d)] : a \in {x}} : TRUE
RPow5(x) == CHOOSE r \in {RMul(RMul(RMul(a, a), RMul(a, a)), a) : a \in {x}} : TRUE

\* sin2_t of schlick and of refracted_color: (n1/n2)^2 * (1 - cos^2)
sin2_t(c) ==
    LET n == Rat(c.n1, c.n2)
        cos == Rat(c.cos, 10)
    IN RMul(RMul(n, n), RSub(RInt(1), RMul(cos, cos)))

\* the early return of schlick: n1 > n2 and sin2_t > 1.0
schlickReturnsEarly(c) == c.n1 > c.n2 /\ RGt(sin2_t(c), RInt(1))

\* A plausible slip: the cosine of the incidence angle is used on both sides.
schlickIncidenceCosine(c) ==
    LET r0 == RMul(Rat(c.n1 - c.n2, c.n1 + c.n2), Rat(c.n1 - c.n2, c.n1 + c.n2))
        cos == Rat(c.cos, 10)
    IN IF schlickReturnsEarly(c) THEN RInt(1)
       ELSE RAdd(r0, RMul(RSub(RInt(1), r0), RPow5(RSub(RInt(1), cos))))

\* Computations::schlick
schlick(c) ==
    LET r0 == RMul(Rat(c.n1 - c.n2, c.n1 + c.n2), Rat(c.n1 - c.n2, c.n1 + c.n2))
        cos == IF c.n1 > c.n2 THEN RSqrt(RSub(RInt(1), sin2_t(c)))
               ELSE Rat(c.cos, 10)
    IN IF schlickReturnsEarly(c) THEN RInt(1)
       ELSE RAdd(r0, RMul(RSub(RInt(1), r0), RPow5(RSub(RInt(1), cos))))

\* Material::reflected_color and Material::scale_transparency, which world.rs
\* calls: the colour scaled by the coefficient
material_reflected_color(m, color) == RMul(color, RInt(m.reflective))
scale_transparency(m, color) == RMul(color, RInt(m.transparency))

\* A plausible slip: the test is on remaining < 0, one call too many.
reflected_stopsBelowZero(m, remaining) == ~is_reflective(m) \/ remaining < 0

\* A plausible slip: the recursion is cut one level early.
reflected_stopsAtOne(m, remaining) == ~is_reflective(m) \/ remaining <= 1

\* the early return of reflected_color
reflected_stops(m, remaining) == ~is_reflective(m) \/ remaining <= 0

\* A plausible slip: refraction goes on at budget 0, one level too deep.
refracted_stopsBelowZero(m, remaining) == ~is_transparent(m) \/ remaining < 0

\* the first early return of refracted_color
refracted_stops(m, remaining) == ~is_transparent(m) \/ remaining <= 0

\* A plausible slip: the critical angle itself counts as total internal
\* reflection.
total_internal_reflectionAtCritical(c) == ~RGt(RInt(1), sin2_t(c))

\* A plausible slip: the ratio is taken as in Snell's law, n2 / n1.
total_internal_reflectionSnell(c) ==
    RGt(sin2_t([c EXCEPT !.n1 = c.n2, !.n2 = c.n1]), RInt(1))

\* the second early return of refracted_color: total internal reflection
total_internal_reflection(c) == RGt(sin2_t(c), RInt(1))

\* A plausible slip: a reflection is charged two levels of the budget.
reflect_remainingTwo(remaining) == remaining - 2

\* A plausible slip: the budget is handed down undiminished.
reflect_remainingSame(remaining) == remaining

\* the budget reflected_color hands to color_at
reflect_remaining(remaining) == remaining - 1

\* A plausible slip: the refraction branch is charged for the reflection too.
refract_remainingShared(remaining) == remaining - 2

\* the budget refracted_color hands to color_at
refract_remaining(remaining) == remaining - 1

\* A plausible slip: a ray that meets nothing shows a lit background.
backgroundWhite == RInt(1)

\* what color_at returns for a ray without a hit
background == BLACK

\* A plausible slip: the Schlick weighting is left out.
shade_resultPlainSum(m, c, surface, reflected, refracted) ==
    RAdd(RAdd(surface, reflected), refracted)

\* A plausible slip: the reflectance weighs the surface colour as well.
shade_resultBlendsSurface(m, c, surface, reflected, refracted) ==
    IF is_reflective(m) /\ is_transparent(m)
    THEN RAdd(RMul(RAdd(surface, reflected), schlick(c)),
              RMul(refracted, RSub(RInt(1), schlick(c))))
    ELSE RAdd(RAdd(surface, reflected), refracted)

\* the result of shade_hit
shade_result(m, c, surface, reflected, refracted) ==
    IF is_reflective(m) /\ is_transparent(m)
    THEN RAdd(RAdd(surface, RMul(reflected, schlick(c))),
              RMul(refracted, RSub(RInt(1), schlick(c))))
    ELSE RAdd(RAdd(surface, reflected), refracted)

\* ------------------------------------------------- the scene and its rays
\* One shape of each optical kind, and a second mirror for the first to face.
ColorWorld ==
    <<Shape(Matte), Shape(Mirror), Shape(Mirror), Shape(Glass), Shape(MirrorGlass)>>

\* a ray that meets shape i only, at ts
Only(w, i, ts) == [j \in 1..Len(w) |-> IF j = i + 1 THEN ts ELSE <<>>]

\* The rays of the model, each given by what every shape's intersect returns
\* for it and by the cosine at its hit: a ray that meets nothing, a ray with
\* one shape behind it, a ray that meets one shape from outside head on, and a
\* ray that starts inside a transparent shape and meets its boundary at a
\* slant (cos 0.6, beyond the critical angle of both transparent materials)
\* or, in the shape that is transparent only, head on (cos 1.0).
RayInputs(w) ==
    {[ts |-> Only(w, 0, <<>>), cos |-> 10]}
    \cup {[ts |-> Only(w, 0, <<-2, -1>>), cos |-> 10]}
    \cup {[ts |-> Only(w, i, <<1, 2>>), cos |-> 10] : i \in 0..(Len(w) - 1)}
    \cup {[ts |-> Only(w, i, <<-1, 1>>), cos |-> 6] :
             i \in {j \in 0..(Len(w) - 1) : is_transparent(get_material(w[j + 1]))}}
    \cup {[ts |-> Only(w, i, <<-1, 1>>), cos |-> 10] :
             i \in {j \in 0..(Len(w) - 1) :
                       /\ is_transparent(get_material(w[j + 1]))
                       /\ ~is_reflective(get_material(w[j + 1]))}}

\* every light's Material::lighting contribution at a hit is the input 1
LightingChoices == {RInt(1)}

RECURSIVE SumOf(_)
SumOf(cs) == IF cs = <<>> THEN BLACK ELSE RAdd(cs[1], SumOf(Tail(cs)))

\* --------------------------------------------------------- the call stack
\* origin names the point a color_at frame's ray starts from: the caller's
\* own ray, or Ray::new(comps.over_point, ..) / Ray::new(comps.under_point, ..)
Frame(fn, pc, remaining, c) ==
    [fn |-> fn, pc |-> pc, remaining |-> remaining, comps |-> c,
     surface |-> BLACK, reflected |-> BLACK, ray |-> <<>>, origin |-> "caller"]

\* the stack cannot outgrow what the budgets of the model need: three frames
\* per level, MaxDepth + 1 levels
MaxStack == 3 * (MaxDepth + 1)

Top == stack[Len(stack)]
Callers == SubSeq(stack, 1, Len(stack) - 1)
MaterialOf(f) == get_material(shapes[f.comps.object_id + 1])

\* the top frame calls f and waits at pc
Call(pc, f) ==
    /\ Len(stack) < MaxStack
    /\ stack' = Append(Callers, [Top EXCEPT !.pc = pc]) \o <<f>>
    /\ UNCHANGED <<ret, phase>>

\* the top frame returns color to its caller
Return(color) ==
    /\ stack' = Callers
    /\ ret' = color
    /\ phase' = IF Callers = <<>> THEN "done" ELSE phase

ColorInit ==
    /\ XsIdle
    /\ PrepIdle
    /\ ColorIdle
    /\ FnIdle
    /\ shapes \in {ColorWorld, <<>>}
    /\ lights = <<PointLight>>
    /\ returned = <<>>
    /\ rayTs = <<>>
    /\ wop = "new"

frameVars == <<xs, hitRes, xop, shapes, lights, returned, rayTs, wop, pk, comps,
               arg, out, fop>>

\* the caller of the engine: color_at(ray, d)
Render ==
    /\ phase = "idle"
    /\ \E d \in -1..MaxDepth :
          stack' = <<Frame("color_at", "start", d, NoComps)>>
    /\ phase' = "running"
    /\ ncalls' = 1
    /\ UNCHANGED ret
    /\ UNCHANGED frameVars

\* World::color_at: the ray is cast, self.intersect(ray) is bound
ColorAt ==
    /\ phase = "running"
    /\ Top.fn = "color_at"
    /\ Top.pc = "start"
    /\ \E in \in RayInputs(shapes) :
          stack' = Append(Callers, [Top EXCEPT !.pc = "intersected", !.ray = in])
    /\ UNCHANGED <<ret, phase, ncalls>>
    /\ UNCHANGED frameVars

\* World::color_at: with a hit, prepare_computations and the call of
\* shade_hit (the intersections are moved into prepare_computations);
\* without one, the return of the background
ColorAtHit ==
    /\ phase = "running"
    /\ Top.fn = "color_at"
    /\ Top.pc = "intersected"
    /\ \E v \in {intersect(shapes, Top.ray.ts)} :
       \E k \in {hit_index(v)} :
          IF k # 0
          THEN \E c \in {prepare_computations(shapes, v, k, Top.ray.cos)} :
                  /\ Len(stack) < MaxStack
                  /\ stack' = Append(Callers, [Top EXCEPT !.pc = "shade_hit", !.ray = <<>>])
                               \o <<Frame("shade_hit", "start", Top.remaining, c)>>
                  /\ UNCHANGED <<ret, phase>>
          ELSE Return(background)
    /\ UNCHANGED ncalls
    /\ UNCHANGED frameVars

\* World::color_at returns what shade_hit returned
ColorAtReturn ==
    /\ phase = "running"
    /\ Top.fn = "color_at"
    /\ Top.pc = "shade_hit"
    /\ Return(ret)
    /\ UNCHANGED ncalls
    /\ UNCHANGED frameVars

\* World::shade_hit: the loop over the lights, then the call of reflected_color
ShadeHit ==
    /\ phase = "running"
    /\ Top.fn = "shade_hit"
    /\ Top.pc = "start"
    /\ \E lit \in [1..Len(lights) -> LightingChoices] :
          /\ Len(stack) < MaxStack
          /\ stack' = Append(Callers,
                             [Top EXCEPT !.pc = "reflected", !.surface = SumOf(lit)])
                      \o <<Frame("reflected_color", "start", Top.remaining, Top.comps)>>
    /\ UNCHANGED <<ret, phase, ncalls>>
    /\ UNCHANGED frameVars

\* World::shade_hit: reflected is bound, refracted_color is called
ShadeHitReflected ==
    /\ phase = "running"
    /\ Top.fn = "shade_hit"
    /\ Top.pc = "reflected"
    /\ Len(stack) < MaxStack
    /\ stack' = Append(Callers, [Top EXCEPT !.pc = "refracted", !.reflected = ret])
                \o <<Frame("refracted_color", "start", Top.remaining, Top.comps)>>
    /\ UNCHANGED <<ret, phase, ncalls>>
    /\ UNCHANGED frameVars

\* World::shade_hit: refracted is bound, the colours are combined
ShadeHitReturn ==
    /\ phase = "running"
    /\ Top.fn = "shade_hit"
    /\ Top.pc = "refracted"
    /\ Return(shade_result(MaterialOf(Top), Top.comps, Top.surface, Top.reflected, ret))
    /\ UNCHANGED ncalls
    /\ UNCHANGED frameVars

\* World::reflected_color up to its return of BLACK or its call of color_at
ReflectedColor ==
    /\ phase = "running"
    /\ Top.fn = "reflected_color"
    /\ Top.pc = "start"
    /\ IF reflected_stops(MaterialOf(Top), Top.remaining)
       THEN Return(BLACK) /\ UNCHANGED ncalls
       ELSE /\ Call("color_at",
                    [Frame("color_at", "start", reflect_remaining(Top.remaining), NoComps)
                        EXCEPT !.origin = "over_point"])
            /\ ncalls' = ncalls + 1
    /\ UNCHANGED frameVars

\* World::reflected_color: the colour of the reflected ray, scaled
ReflectedColorReturn ==
    /\ phase = "running"
    /\ Top.fn = "reflected_color"
    /\ Top.pc = "color_at"
    /\ Return(material_reflected_color(MaterialOf(Top), ret))
    /\ UNCHANGED ncalls
    /\ UNCHANGED frameVars

\* World::refracted_color up to its return of BLACK or its call of color_at
RefractedColor ==
    /\ phase = "running"
    /\ Top.fn = "refracted_color"
    /\ Top.pc = "start"
    /\ IF refracted_stops(MaterialOf(Top), Top.remaining)
       THEN Return(BLACK) /\ UNCHANGED ncalls
       ELSE IF total_internal_reflection(Top.comps)
       THEN Return(BLACK) /\ UNCHANGED ncalls
       ELSE /\ Call("color_at",
                    [Frame("color_at", "start", refract_remaining(Top.remaining), NoComps)
                        EXCEPT !.origin = "under_point"])
            /\ ncalls' = ncalls + 1
    /\ UNCHANGED frameVars

\* World::refracted_color: the colour of the refracted ray, scaled
RefractedColorReturn ==
    /\ phase = "running"
    /\ Top.fn = "refracted_color"
    /\ Top.pc = "color_at"
    /\ Return(scale_transparency(MaterialOf(Top), ret))
    /\ UNCHANGED ncalls
    /\ UNCHANGED frameVars

ColorNext ==
    \/ Render
    \/ ColorAt
    \/ ColorAtHit
    \/ ColorAtReturn
    \/ ShadeHit
    \/ ShadeHitReflected
    \/ ShadeHitReturn
    \/ ReflectedColor
    \/ ReflectedColorReturn
    \/ RefractedColor
    \/ RefractedColorReturn

SpecColor == ColorInit /\ [][ColorNext]_vars

\* The program is sequential: a call that can take its next step takes it.
SpecColorFair == SpecColor /\ WF_vars(ColorNext)

\* ------------------------------------------------------------------ C3
\* C3: color_at(ray, d) terminates for every budget d, also when fully
\* reflective surfaces face each other and every reflected ray meets a mirror.
C3_ColorAtTerminates == (phase = "running") ~> (phase = "done")

\* a ray bouncing between the two mirrors, down to budget 0
C3_Witness ==
    /\ phase = "running"
    /\ Len(stack) = 9
    /\ stack[1].remaining = 2
    /\ stack[2].fn = "shade_hit" /\ stack[2].comps.object_id = 1
    /\ stack[5].fn = "shade_hit" /\ stack[5].comps.object_id = 2
    /\ stack[8].fn = "shade_hit" /\ stack[8].comps.object_id = 1
    /\ stack[9].fn = "reflected_color" /\ stack[9].remaining = 0

\* ------------------------------------------------------------------ C4
Branch == {"reflected_color", "refracted_color"}

\* C4: reflected_color and refracted_color called with remaining <= 0 return
\* black and make no recursive color_at call, whatever the material is: no
\* color_at call is ever made by such a call, and what it hands back to
\* shade_hit is BLACK.
C4_NoBudgetNoRecursion ==
    /\ \A j \in 2..Len(stack) :
          (stack[j].fn = "color_at" /\ stack[j - 1].fn \in Branch)
              => stack[j - 1].remaining > 0
    /\ (/\ phase = "running"
        /\ Top.fn = "shade_hit"
        /\ Top.pc \in {"reflected", "refracted"}
        /\ Top.remaining <= 0)
           => ret = BLACK

\* refracted_color has just returned BLACK to a shade_hit with budget 0 on a
\* shape that is reflective and transparent
C4_Witness ==
    /\ phase = "running"
    /\ Top.fn = "shade_hit"
    /\ Top.pc = "refracted"
    /\ Top.remaining = 0
    /\ MaterialOf(Top).reflective > 0
    /\ MaterialOf(Top).transparency > 0
    /\ Top.reflected = BLACK
    /\ ret = BLACK
    /\ ncalls = 2

\* ------------------------------------------------------------------ C5
\* C5: within one shade_hit(comps, d), the reflection branch and the
\* refraction branch each call color_at with budget exactly d - 1, whatever
\* the other branch did before.
C5_EachBranchGetsOwnBudget ==
    \A j \in 2..Len(stack) :
        stack[j].fn = "color_at" =>
            /\ j > 2
            /\ stack[j - 1].fn \in Branch
            /\ stack[j - 2].fn = "shade_hit"
            /\ stack[j - 1].remaining = stack[j - 2].remaining
            /\ stack[j].remaining = stack[j - 2].remaining - 1

\* the refraction branch of a shade_hit with budget 2 calls color_at(1) after
\* the reflection branch made three color_at calls of its own
C5_Witness ==
    /\ phase = "running"
    /\ Len(stack) = 4
    /\ stack[2].fn = "shade_hit"
    /\ stack[2].remaining = 2
    /\ stack[2].pc = "refracted"
    /\ stack[3].fn = "refracted_color"
    /\ stack[4].fn = "color_at"
    /\ stack[4].remaining = 1
    /\ ncalls = 5

\* ------------------------------------------------------------------ C6
\* what a branch function at its start does next
Recurses ==
    /\ Len(stack') = Len(stack) + 1
    /\ stack'[Len(stack')].fn = "color_at"
    /\ stack'[Len(stack')].remaining = Top.remaining - 1
    /\ ncalls' = ncalls + 1

ReturnsAtOnce ==
    /\ stack' = Callers
    /\ ncalls' = ncalls

AtStartOf(fn) ==
    /\ phase = "running"
    /\ Top.fn = fn
    /\ Top.pc = "start"

\* (n1/n2)^2 * (1 - cos^2) > 1, in whole numbers (cos is in tenths)
BeyondCriticalAngle(c) == c.n1 * c.n1 * (100 - c.cos * c.cos) > 100 * c.n2 * c.n2

\* C6 as claimed: reflected_color (resp. refracted_color) returns without a
\* recursive color_at call only when the material has no reflective (resp.
\* transparent) contribution or remaining <= 0; in every other case it calls
\* color_at with remaining - 1.
C6_OnlyTwoStoppingRules ==
    [][/\ AtStartOf("reflected_color") =>
            IF MaterialOf(Top).reflective = 0 \/ Top.remaining <= 0
            THEN ReturnsAtOnce ELSE Recurses
       /\ AtStartOf("refracted_color") =>
            IF MaterialOf(Top).transparency = 0 \/ Top.remaining <= 0
            THEN ReturnsAtOnce ELSE Recurses]_vars

\* C6 as amended: refracted_color has a third stopping rule, total internal
\* reflection (sin2_t > 1); apart from it the claim holds.
C6_StoppingRulesWithTotalInternalReflection ==
    [][/\ AtStartOf("reflected_color") =>
            IF MaterialOf(Top).reflective = 0 \/ Top.remaining <= 0
            THEN ReturnsAtOnce ELSE Recurses
       /\ AtStartOf("refracted_color") =>
            IF \/ MaterialOf(Top).transparency = 0
               \/ Top.remaining <= 0
               \/ BeyondCriticalAngle(Top.comps)
            THEN ReturnsAtOnce ELSE Recurses]_vars

\* refracted_color has just returned BLACK for a transparent shape, with
\* budget left, under total internal reflection
C6_Witness ==
    /\ phase = "running"
    /\ Top.fn = "shade_hit"
    /\ Top.pc = "refracted"
    /\ Top.remaining = 2
    /\ MaterialOf(Top).transparency > 0
    /\ BeyondCriticalAngle(Top.comps)
    /\ ret = BLACK

\* ------------------------------------------------------------------ C11
\* the ray has no hit: the world is empty, or no shape is met, or every t of
\* every shape is negative
NoHit(ts) == \A i \in DOMAIN ts : \A k \in DOMAIN ts[i] : ts[i][k] < 0

\* C11: when the ray cast by color_at has no hit, color_at returns BLACK at
\* once: no shade_hit frame is pushed and no further color_at call is made.
C11_NoHitIsBlack ==
    [][(/\ phase = "running"
        /\ Top.fn = "color_at"
        /\ Top.pc = "intersected"
        /\ NoHit(Top.ray.ts))
          => (/\ stack' = Callers
              /\ ret' = [n |-> 0, d |-> 1]
              /\ ncalls' = ncalls)]_vars

\* a reflected ray, cast from the first mirror, has the matte shape behind
\* it and nothing in front; the last colour returned was not black
C11_Witness ==
    /\ phase = "running"
    /\ Len(stack) = 4
    /\ stack[2].fn = "shade_hit" /\ stack[2].comps.object_id = 1
    /\ Top.fn = "color_at"
    /\ Top.pc = "intersected"
    /\ Top.ray.ts[1] = <<-2, -1>>
    /\ NoHit(Top.ray.ts)

\* ------------------------------------------------------------------ C13
\* C13: shade_hit returns surface + reflected * r + refracted * (1 - r), r
\* the Schlick reflectance of the hit, exactly when the material of the hit
\* is both reflective and transparent, and surface + reflected + refracted
\* for every other material.
C13_SchlickBlendIffReflectiveAndTransparent ==
    [][(/\ phase = "running"
        /\ Top.fn = "shade_hit"
        /\ Top.pc = "refracted")
          => ret' = IF MaterialOf(Top).reflective > 0 /\ MaterialOf(Top).transparency > 0
                    THEN RAdd(RAdd(Top.surface, RMul(Top.reflected, schlick(Top.comps))),
                              RMul(ret, RSub(RInt(1), schlick(Top.comps))))
                    ELSE RAdd(RAdd(Top.surface, Top.reflected), ret)]_vars

\* shade_hit on the reflective and transparent shape is about to combine a
\* reflected and a refracted colour that are both not black, with a
\* reflectance strictly between 0 and 1
C13_Witness ==
    /\ phase = "running"
    /\ Top.fn = "shade_hit"
    /\ Top.pc = "refracted"
    /\ MaterialOf(Top).reflective > 0
    /\ MaterialOf(Top).transparency > 0
    /\ Top.reflected # BLACK
    /\ ret # BLACK
    /\ schlick(Top.comps) \notin {RInt(0), RInt(1)}

\* ============================================================ is_shadowed
\* what a shape's intersect can return, with t drawn from S
TsOver(S) ==
    {<<>>} \cup {<<t>> : t \in S}
           \cup {<<p[1], p[2]>> : p \in {q \in S \X S : q[1] <= q[2]}}

\* A plausible slip: a shape exactly at the light's distance casts a shadow.
is_shadowedAtOrBefore(w, ts, distance) ==
    LET v == intersect(w, ts)
        k == hit_index(v)
    IN k # 0 /\ v[k].t <= distance

\* World::is_shadowed: ts is what each shape's intersect returns for the ray
\* from the point toward the light, distance the length of light - point
is_shadowed(w, ts, distance) ==
    LET v == intersect(w, ts)
        k == hit_index(v)
    IN k # 0 /\ v[k].t < distance

\* two shapes, a point and a light at distance 1..MaxT from it
ShadowInit ==
    /\ XsIdle
    /\ PrepIdle
    /\ ColorIdle
    /\ shapes = <<Shape(Matte), Shape(Matte)>>
    /\ lights = <<PointLight>>
    /\ returned = <<>>
    /\ rayTs = <<>>
    /\ wop = "new"
    /\ arg \in [ts : [1..2 -> TsOver(TVals)], distance : 1..MaxT]
    /\ out = <<>>
    /\ fop = "called"

IsShadowed ==
    /\ fop = "called"
    /\ out' = is_shadowed(shapes, arg.ts, arg.distance)
    /\ fop' = "returned"
    /\ UNCHANGED <<xs, hitRes, xop, shapes, lights, returned, rayTs, wop, pk, comps>>
    /\ UNCHANGED colorVars
    /\ UNCHANGED arg

ShadowNext == IsShadowed

SpecShadow == ShadowInit /\ [][ShadowNext]_vars

\* ------------------------------------------------------------------ C12
\* the non-negative t of all shapes on the ray toward the light
AheadTs(ts) ==
    {t \in UNION {{ts[i][k] : k \in DOMAIN ts[i]} : i \in DOMAIN ts} : t >= 0}

\* C12: is_shadowed is true exactly when the ray from the point toward the
\* light has a hit, the smallest non-negative t, and that t is strictly less
\* than the distance to the light; with every shape behind the point (t < 0)
\* or at or beyond the light (t >= distance) it is false.
C12_ShadowedIffHitBeforeLight ==
    fop = "returned" =>
        /\ out = (/\ AheadTs(arg.ts) # {}
                  /\ \E t \in AheadTs(arg.ts) :
                        /\ \A u \in AheadTs(arg.ts) : t <= u
                        /\ t < arg.distance)
        /\ (\A t \in AheadTs(arg.ts) : t >= arg.distance) => out = FALSE

\* one shape straddles the point and ends before the light, the other lies
\* beyond the light
C12_Witness ==
    /\ fop = "returned"
    /\ arg.distance = 2
    /\ arg.ts[1] = <<-1, 1>>
    /\ arg.ts[2] = <<2, 2>>
    /\ out = TRUE

\* ================================================== matrices, transforms
\* f64 entries are exact fractions here
RNeg(x) == CHOOSE r \in {Rat(0 - a.n, a.d) : a \in {x}} : TRUE
RDiv(x, y) ==
    CHOOSE r \in {Rat(a.n * b.d, a.d * b.n) : a \in {x}, b \in {y}} : TRUE
RAbs(x) == CHOOSE r \in {Rat(Abs(a.n), a.d) : a \in {x}} : TRUE
RLt(x, y) == \E a \in {x}, b \in {y} : a.n * b.d < b.n * a.d

\* approx_eq.rs: EPSILON = 0.00001 and f64's approx_eq
EPSILON == Rat(1, 100000)
approx_eq(x, y) == RLt(RAbs(RSub(x, y)), EPSILON)

\* a matrix is the sequence of its rows; rows and columns are counted from 1
\* (the parity of i + j is the same as counted from 0)
IDENTITY_MATRIX ==
    <<<<RInt(1), RInt(0), RInt(0)>>,
      <<RInt(0), RInt(1), RInt(0)>>,
      <<RInt(0), RInt(0), RInt(1)>>>>
ZERO == <<RInt(0), RInt(0), RInt(0)>>

Without(n, i) == [k \in 1..(n - 1) |-> IF k < i THEN k ELSE k + 1]

\* Matrix::submatrix: row i and column j removed
submatrix(m, i, j) ==
    [r \in 1..(Len(m) - 1) |->
        [c \in 1..(Len(m) - 1) |-> m[Without(Len(m), i)[r]][Without(Len(m), j)[c]]]]

RECURSIVE RSum(_)
RSum(v) == IF v = <<>> THEN RInt(0) ELSE RAdd(v[1], RSum(Tail(v)))

\* Matrix::determinant, minor and cofactor: expansion along the first row,
\* down to the 2 x 2 determinant
RECURSIVE determinant(_)
determinant(m) ==
    IF Len(m) = 2
    THEN RSub(RMul(m[1][1], m[2][2]), RMul(m[2][1], m[1][2]))
    ELSE RSum([j \in 1..Len(m) |->
                 RMul(m[1][j],
                      IF (1 + j) % 2 = 0
                      THEN determinant(submatrix(m, 1, j))
                      ELSE RNeg(determinant(submatrix(m, 1, j))))])

minor(m, i, j) == determinant(submatrix(m, i, j))
cofactor(m, i, j) == IF (i + j) % 2 = 0 THEN minor(m, i, j) ELSE RNeg(minor(m, i, j))

None == [some |-> FALSE]
Some(v) == [some |-> TRUE, value |-> v]

\* Matrix::inverse: None when the determinant is approximately 0, otherwise
\* the transposed cofactors over the determinant
matrix_inverse(m) ==
    LET det == determinant(m)
    IN IF approx_eq(det, RInt(0)) THEN None
       ELSE Some([j \in 1..Len(m) |->
                    [i \in 1..Len(m) |-> RDiv(cofactor(m, i, j), det)]])

\* Matrix * Vector and Matrix * Matrix
MatVec(m, v) == [i \in 1..Len(m) |-> RSum([k \in 1..Len(m) |-> RMul(m[i][k], v[k])])]
MatMul(a, b) ==
    [i \in 1..Len(a) |->
        [j \in 1..Len(a) |-> RSum([k \in 1..Len(a) |-> RMul(a[i][k], b[k][j])])]]
VecAdd(u, v) == [i \in 1..Len(u) |-> RAdd(u[i], v[i])]
VecNeg(v) == [i \in 1..Len(v) |-> RNeg(v[i])]

\* transform.rs
Affine(transform, translate) == [transform |-> transform, translate |-> translate]
IDENTITY_AFFINE == Affine(IDENTITY_MATRIX, ZERO)

\* Affine::inverse
affine_inverse(a) ==
    LET inv == matrix_inverse(a.transform)
    IN IF inv.some
       THEN Some(Affine(inv.value, VecNeg(MatVec(inv.value, a.translate))))
       ELSE None

\* Affine * Affine
affine_mul(a, b) ==
    Affine(MatMul(a.transform, b.transform),
           VecAdd(MatVec(a.transform, b.translate), a.translate))

translation(x, y, z) == Affine(IDENTITY_MATRIX, <<x, y, z>>)
scaling(x, y, z) ==
    Affine(<<<<x, RInt(0), RInt(0)>>, <<RInt(0), y, RInt(0)>>, <<RInt(0), RInt(0), z>>>>, ZERO)
\* rotation_z(r) given cos r and sin r
rotation_z(cr, sr) ==
    Affine(<<<<cr, RNeg(sr), RInt(0)>>, <<sr, cr, RInt(0)>>, <<RInt(0), RInt(0), RInt(1)>>>>, ZERO)
shearing(xy, xz, yx, yz, zx, zy) ==
    Affine(<<<<RInt(1), xy, xz>>, <<yx, RInt(1), yz>>, <<zx, zy, RInt(1)>>>>, ZERO)

\* ================================================================ shape.rs
\* material.rs: DEFAULT_MATERIAL, in the fields of the model
DEFAULT_MATERIAL == Matte

\* Shape::new: the full Shape value (the worlds above keep only the material)
ShapeNew(local_shape) ==
    [inverse_transform |-> IDENTITY_AFFINE,
     material |-> DEFAULT_MATERIAL,
     local_shape |-> local_shape]

Panic == [ok |-> FALSE]
Ok(shape) == [ok |-> TRUE, shape |-> shape]

\* A plausible slip: unwrap_or(IDENTITY_AFFINE) instead of unwrap().
set_transformOrIdentity(shape, transform) ==
    LET inv == affine_inverse(transform)
    IN IF inv.some
       THEN Ok([shape EXCEPT !.inverse_transform = inv.value])
       ELSE Ok([shape EXCEPT !.inverse_transform = IDENTITY_AFFINE])

\* Shape::set_transform: transform.inverse().unwrap() panics on None
set_transform(shape, transform) ==
    LET inv == affine_inverse(transform)
    IN IF inv.some
       THEN Ok([shape EXCEPT !.inverse_transform = inv.value])
       ELSE Panic

\* A plausible slip: the shape is rebuilt from its primitive, not updated.
set_materialRebuilds(shape, material) ==
    [ShapeNew(shape.local_shape) EXCEPT !.material = material]

\* Shape::set_material
set_material(shape, material) == [shape EXCEPT !.material = material]

\* the transforms the scene builder supplies: the primitives of transform.rs
\* and a composition of two of them
Transforms ==
    {translation(RInt(5), RInt(-3), RInt(2)),
     scaling(RInt(2), RInt(2), RInt(2)),
     scaling(Rat(1, 100), Rat(1, 100), Rat(1, 100)),
     scaling(RInt(0), RInt(1), RInt(1)),
     rotation_z(RInt(0), RInt(1)),
     shearing(RInt(1), RInt(0), RInt(0), RInt(0), RInt(0), RInt(0)),
     shearing(RInt(1), RInt(0), RInt(1), RInt(0), RInt(0), RInt(0)),
     affine_mul(translation(RInt(1), RInt(0), RInt(0)), scaling(RInt(2), RInt(2), RInt(2)))}

LocalShapes == {"sphere", "plane"}
ShapeMaterials == {Matte, Mirror, Glass}

\* the scene builder holds no shape, the world is empty
ShapeInit ==
    /\ XsIdle
    /\ WorldIdle
    /\ PrepIdle
    /\ ColorIdle
    /\ FnIdle

shapeFrame == <<xs, hitRes, xop, lights, returned, rayTs, wop, pk, comps>>

\* Shape::new(local_shape)
NewShape ==
    /\ fop \in {"idle", "add_shape"}
    /\ \E l \in LocalShapes : out' = ShapeNew(l)
    /\ arg' = <<>>
    /\ fop' = "new"
    /\ UNCHANGED shapes
    /\ UNCHANGED shapeFrame
    /\ UNCHANGED colorVars

\* shape.set_transform(t): the shape is moved in; a panic leaves no shape and
\* ends the program
SetTransform ==
    /\ fop \in {"new", "set_transform", "set_material"}
    /\ \E t \in Transforms :
       \E r \in {set_transform(out, t)} :
          /\ arg' = t
          /\ IF r.ok
             THEN out' = r.shape /\ fop' = "set_transform"
             ELSE out' = <<>> /\ fop' = "panic"
    /\ UNCHANGED shapes
    /\ UNCHANGED shapeFrame
    /\ UNCHANGED colorVars

\* shape.set_material(m)
SetMaterial ==
    /\ fop \in {"new", "set_transform", "set_material"}
    /\ \E m \in ShapeMaterials :
          /\ arg' = m
          /\ out' = set_material(out, m)
    /\ fop' = "set_material"
    /\ UNCHANGED shapes
    /\ UNCHANGED shapeFrame
    /\ UNCHANGED colorVars

\* world.add_shape(shape): the shape is moved into the world
AddBuiltShape ==
    /\ fop \in {"new", "set_transform", "set_material"}
    /\ shapes = <<>>
    /\ shapes' = add_shape(shapes, out).shapes
    /\ out' = <<>>
    /\ arg' = <<>>
    /\ fop' = "add_shape"
    /\ UNCHANGED shapeFrame
    /\ UNCHANGED colorVars

ShapeNext == NewShape \/ SetTransform \/ SetMaterial \/ AddBuiltShape

SpecShape == ShapeInit /\ [][ShapeNext]_vars

\* ------------------------------------------------------------------ C14
\* m * inv is the identity matrix
IsInverseOf(inv, m) == MatMul(m, inv) = IDENTITY_MATRIX

\* the shape's inverse transform maps back what some matrix maps forward
Usable(shape) ==
    \E m \in {IDENTITY_MATRIX} \cup {t.transform : t \in Transforms} :
        /\ determinant(m) # RInt(0)
        /\ IsInverseOf(shape.inverse_transform.transform, m)

\* C14: set_transform with a singular transform (determinant 0) produces no
\* Shape value: the call panics, nothing is added to the world; and every
\* shape the builder holds or the world contains has a usable inverse
\* transform.
C14_SingularTransformFailsAtConstruction ==
    /\ [][(fop' \in {"set_transform", "panic"} /\ determinant(arg'.transform) = RInt(0))
            => (fop' = "panic" /\ out' = <<>> /\ shapes' = shapes)]_vars
    /\ [](/\ \A i \in 1..Len(shapes) : Usable(shapes[i])
          /\ (fop \in {"new", "set_transform", "set_material"}) => Usable(out))

\* set_transform was called with the singular shear: the program panicked
\* and the builder holds no shape
C14_Witness ==
    /\ fop = "panic"
    /\ arg = shearing(RInt(1), RInt(0), RInt(1), RInt(0), RInt(0), RInt(0))
    /\ out = <<>>

\* ------------------------------------------------------------------ C15
\* C15: set_transform fails only for a transform that is truly singular:
\* whenever it has panicked, the determinant of the transform supplied is 0.
C15_FailsOnlyIfSingular ==
    fop = "panic" => determinant(arg.transform) = RInt(0)

\* ------------------------------------------------------------------ C16
\* the transforms set_transform accepts
Accepted == {t \in Transforms : set_transform(ShapeNew("sphere"), t).ok}

\* C16: set_material leaves inverse transform and primitive as they are,
\* set_transform leaves material and primitive as they are, the two commute,
\* and a second set_transform or set_material replaces the first: for the
\* shape the builder holds and every accepted transform and every material.
C16_FunctionalUpdatesWithFrame ==
    (fop \in {"new", "set_transform", "set_material"}) =>
        /\ \A m \in ShapeMaterials :
              /\ set_material(out, m).inverse_transform = out.inverse_transform
              /\ set_material(out, m).local_shape = out.local_shape
              /\ set_material(out, m).material = m
              /\ \A m2 \in ShapeMaterials :
                    set_material(set_material(out, m), m2) = set_material(out, m2)
        /\ \A t \in Accepted :
           \A r \in {set_transform(out, t)} :
              /\ r.shape.material = out.material
              /\ r.shape.local_shape = out.local_shape
              /\ r.shape.inverse_transform = affine_inverse(t).value
              /\ \A t2 \in Accepted :
                    set_transform(r.shape, t2) = set_transform(out, t2)
              /\ \A m \in ShapeMaterials :
                    set_material(r.shape, m) = set_transform(set_material(out, m), t).shape

\* the builder holds a plane that was given a transform and then a material,
\* neither the default
C16_Witness ==
    /\ fop = "set_material"
    /\ out.local_shape = "plane"
    /\ out.material = Glass
    /\ out.inverse_transform = affine_inverse(scaling(RInt(2), RInt(2), RInt(2))).value

\* ============================================ evaluations sharing a world
\* Two color_at evaluations, A and B, run over one world (&self).  The one
\* that is running has its call stack in stack, ret, ncalls and phase; the
\* other one is suspended, its call stack kept in arg.  fop names the running
\* one, out holds what each was asked: the shape its primary ray meets and its
\* budget.

\* a ray that meets shape i from outside, head on
RayAt(i) == [ts |-> Only(ColorWorld, i, <<1, 2>>), cos |-> 10]

\* a ray that starts inside shape i and leaves it head on
RayInside(i) == [ts |-> Only(ColorWorld, i, <<-1, 1>>), cos |-> 10]

\* The geometry of the scene: where the secondary ray of a hit goes.  The two
\* mirrors (1, 2) face each other; the mirror-glass shape (4) reflects onto
\* the matte shape (0) and refracts onto the glass shape (3); a ray refracted
\* into the glass shape crosses it, and leaving it meets the matte shape.
SceneRay(c, fn) ==
    IF c.object_id = 1 THEN RayAt(2)
    ELSE IF c.object_id = 2 THEN RayAt(1)
    ELSE IF c.object_id = 4
         THEN (IF fn = "reflected_color" THEN RayAt(0) ELSE RayAt(3))
    ELSE IF c.object_id = 3 /\ c.n1 = 10 THEN RayInside(3)
    ELSE RayAt(0)

Evaluations == {"A", "B"}
OtherEvaluation(e) == IF e = "A" THEN "B" ELSE "A"
Requests == [shape : {1, 3, 4}, d : (MaxDepth - 1)..MaxDepth]

Suspended(st, r, n, ph) == [stack |-> st, ret |-> r, ncalls |-> n, phase |-> ph]

SharedInit ==
    /\ XsIdle
    /\ PrepIdle
    /\ ColorIdle
    /\ shapes = ColorWorld
    /\ lights = <<PointLight>>
    /\ returned = <<>>
    /\ rayTs = <<>>
    /\ wop = "new"
    /\ arg = Suspended(<<>>, BLACK, 0, "idle")
    /\ out \in [Evaluations -> Requests]
    /\ fop = "A"

\* the running evaluation starts: color_at(ray, d) as it was asked
SharedRender ==
    /\ Render
    /\ stack'[1].remaining = out[fop].d

\* the running evaluation casts the ray the scene's geometry gives
SharedColorAt ==
    /\ ColorAt
    /\ stack'[Len(stack')].ray =
          IF Len(stack) = 1 THEN RayAt(out[fop].shape)
          ELSE SceneRay(stack[Len(stack) - 1].comps, stack[Len(stack) - 1].fn)

\* the scheduler suspends the running evaluation and resumes the other one
Switch ==
    /\ arg' = Suspended(stack, ret, ncalls, phase)
    /\ stack' = arg.stack
    /\ ret' = arg.ret
    /\ ncalls' = arg.ncalls
    /\ phase' = arg.phase
    /\ fop' = OtherEvaluation(fop)
    /\ UNCHANGED <<xs, hitRes, xop, shapes, lights, returned, rayTs, wop, pk, comps, out>>

SharedNext ==
    \/ SharedRender
    \/ SharedColorAt
    \/ ColorAtHit
    \/ ColorAtReturn
    \/ ShadeHit
    \/ ShadeHitReflected
    \/ ShadeHitReturn
    \/ ReflectedColor
    \/ ReflectedColorReturn
    \/ RefractedColor
    \/ RefractedColorReturn
    \/ Switch

SpecShared == SharedInit /\ [][SharedNext]_vars

\* ------------------------------------------------------------------ C17
\* what color_at(in, d) returns when it runs alone, start to end
RECURSIVE AloneColorAt(_, _)
AloneColorAt(in, d) ==
    LET v == intersect(ColorWorld, in.ts)
        k == hit_index(v)
    IN IF k = 0 THEN [n |-> 0, d |-> 1]
       ELSE LET c == prepare_computations(ColorWorld, v, k, in.cos)
                m == ColorWorld[c.object_id + 1].material
                surface == [n |-> 1, d |-> 1]
                reflected ==
                    IF m.reflective = 0 \/ d <= 0 THEN [n |-> 0, d |-> 1]
                    ELSE RMul(AloneColorAt(SceneRay(c, "reflected_color"), d - 1),
                              RInt(m.reflective))
                refracted ==
                    IF m.transparency = 0 \/ d <= 0 \/ BeyondCriticalAngle(c)
                    THEN [n |-> 0, d |-> 1]
                    ELSE RMul(AloneColorAt(SceneRay(c, "refracted_color"), d - 1),
                              RInt(m.transparency))
            IN IF m.reflective > 0 /\ m.transparency > 0
               THEN RAdd(RAdd(surface, RMul(reflected, schlick(c))),
                         RMul(refracted, RSub(RInt(1), schlick(c))))
               ELSE RAdd(RAdd(surface, reflected), refracted)

AloneResult(r) == AloneColorAt(RayAt(r.shape), r.d)

\* C17: no step of a color_at evaluation changes the world's shapes or
\* lights, and however two evaluations over the same world are interleaved,
\* each returns the colour it returns when run alone.
C17_ColorAtLeavesWorldInterleavingsAgree ==
    /\ [][shapes' = shapes /\ lights' = lights]_vars
    /\ [](phase = "done" => ret = AloneResult(out[fop]))
    /\ [](arg.phase = "done" => arg.ret = AloneResult(out[OtherEvaluation(fop)]))

\* both evaluations are in the middle of their recursion: A below the
\* mirror-glass shape with its reflected colour already bound, B between the
\* mirrors
C17_Witness ==
    /\ out["A"].shape = 4 /\ out["B"].shape = 1
    /\ fop = "A"
    /\ phase = "running"
    /\ Len(stack) >= 4
    /\ stack[2].pc = "refracted"
    /\ arg.phase = "running"
    /\ Len(arg.stack) >= 7

\* ================================================================ plane.rs
\* A plausible slip: the sign of direction.y is not taken off.
local_intersectNoAbs(origin_y, direction_y) ==
    IF RLt(direction_y, EPSILON) THEN <<>>
    ELSE <<RDiv(RNeg(origin_y), direction_y)>>

\* Plane::local_intersect, a function of the ray's origin.y and direction.y
local_intersect(origin_y, direction_y) ==
    IF RLt(RAbs(direction_y), EPSILON) THEN <<>>
    ELSE <<RDiv(RNeg(origin_y), direction_y)>>

\* direction.y: zero, below EPSILON, EPSILON itself, and ordinary slopes
DirectionYs ==
    {RInt(0)} \cup UNION {{x, RNeg(x)} :
                            x \in {Rat(1, 1000000), Rat(1, 100000), Rat(1, 2), RInt(1), RInt(2)}}

PlaneInit ==
    /\ XsIdle
    /\ WorldIdle
    /\ PrepIdle
    /\ ColorIdle
    /\ arg \in [origin_y : {RInt(y) : y \in TVals}, direction_y : DirectionYs]
    /\ out = <<>>
    /\ fop = "called"

PlaneIntersect ==
    /\ fop = "called"
    /\ out' = local_intersect(arg.origin_y, arg.direction_y)
    /\ fop' = "returned"
    /\ UNCHANGED <<xs, hitRes, xop, shapes, lights, returned, rayTs, wop, pk, comps>>
    /\ UNCHANGED colorVars
    /\ UNCHANGED arg

PlaneNext == PlaneIntersect

SpecPlane == PlaneInit /\ [][PlaneNext]_vars

\* ------------------------------------------------------------------ C18
\* C18: Plane.local_intersect returns nothing when |direction.y| < 0.00001,
\* also when the ray lies in the plane (origin.y = 0), and otherwise exactly
\* one t, the one with t * direction.y = -origin.y.
C18_PlaneParallelOrOneRoot ==
    fop = "returned" =>
        IF Abs(arg.direction_y.n) * 100000 < arg.direction_y.d
        THEN out = <<>>
        ELSE /\ Len(out) = 1
             /\ out[1].n * arg.direction_y.n * arg.origin_y.d
                  = (0 - arg.origin_y.n) * out[1].d * arg.direction_y.d

\* a ray in the plane itself, along it
C18_Witness ==
    /\ fop = "returned"
    /\ arg.origin_y = RInt(0)
    /\ arg.direction_y = RInt(0)
    /\ out = <<>>

\* ============================================================== lighting
\* f64::powf for a whole exponent
RECURSIVE RPow(_, _)
RPow(x, e) == IF e = 0 THEN RInt(1) ELSE RMul(x, RPow(x, e - 1))

\* the Phong part of a material: the resolved surface colour (one channel)
\* and the four coefficients
Phong(color, ambient, diffuse, specular, shininess) ==
    [color |-> color, ambient |-> ambient, diffuse |-> diffuse,
     specular |-> specular, shininess |-> shininess]

\* PointLight::combine and PointLight::scale_intensity, which lighting calls
combine(light, color) == RMul(color, light.intensity)
scale_intensity(light, f) == RMul(light.intensity, f)

\* A plausible slip: the shadow only suppresses the specular highlight.
lightingShadowKeepsDiffuse(m, light, light_dot_normal, reflect_dot_eye, in_shadow) ==
    LET effective_color == combine(light, m.color)
        ambient == RMul(effective_color, m.ambient)
    IN IF RLt(light_dot_normal, RInt(0)) THEN ambient
       ELSE IF in_shadow \/ ~RGt(reflect_dot_eye, RInt(0))
       THEN RAdd(ambient, RMul(RMul(effective_color, m.diffuse), light_dot_normal))
       ELSE RAdd(RAdd(ambient, RMul(RMul(effective_color, m.diffuse), light_dot_normal)),
                 scale_intensity(light, RMul(m.specular, RPow(reflect_dot_eye, m.shininess))))

\* Material::lighting.  The eye vector, the normal, the point and the light's
\* position enter through the two cosines computed from them:
\* light_dot_normal = lightv . normalv and reflect_dot_eye = reflectv . eyev.
lighting(m, light, light_dot_normal, reflect_dot_eye, in_shadow) ==
    LET effective_color == combine(light, m.color)
        ambient == RMul(effective_color, m.ambient)
    IN IF in_shadow THEN ambient
       ELSE IF RLt(light_dot_normal, RInt(0)) THEN RAdd(RAdd(ambient, BLACK), BLACK)
       ELSE IF ~RGt(reflect_dot_eye, RInt(0))
       THEN RAdd(RAdd(ambient, RMul(RMul(effective_color, m.diffuse), light_dot_normal)),
                 BLACK)
       ELSE RAdd(RAdd(ambient, RMul(RMul(effective_color, m.diffuse), light_dot_normal)),
                 scale_intensity(light, RMul(m.specular, RPow(reflect_dot_eye, m.shininess))))

PhongMaterials ==
    {Phong(c, a, d, sp, sh) :
        c \in {RInt(1), Rat(1, 2)}, a \in {Rat(1, 10), RInt(1)},
        d \in {RInt(0), Rat(9, 10)}, sp \in {RInt(0), Rat(9, 10)}, sh \in {1, 2}}
Intensities == {RInt(1), RInt(2)}
Cosines == {RInt(-1), Rat(1, 2), RInt(1)}

LightingInit ==
    /\ XsIdle
    /\ WorldIdle
    /\ PrepIdle
    /\ ColorIdle
    /\ arg \in [material : PhongMaterials, light : [intensity : Intensities],
                light_dot_normal : Cosines, reflect_dot_eye : Cosines,
                in_shadow : BOOLEAN]
    /\ out = <<>>
    /\ fop = "called"

Lighting ==
    /\ fop = "called"
    /\ out' = lighting(arg.material, arg.light, arg.light_dot_normal,
                       arg.reflect_dot_eye, arg.in_shadow)
    /\ fop' = "returned"
    /\ UNCHANGED <<xs, hitRes, xop, shapes, lights, returned, rayTs, wop, pk, comps>>
    /\ UNCHANGED colorVars
    /\ UNCHANGED arg

LightingNext == Lighting

SpecLighting == LightingInit /\ [][LightingNext]_vars

\* ------------------------------------------------------------------ C19
\* C19: with in_shadow, lighting returns light intensity * surface colour *
\* ambient and nothing else, whatever the two cosines (eye, normal, light
\* position) and the diffuse, specular and shininess values are.
C19_ShadowLeavesAmbientOnly ==
    (fop = "returned" /\ arg.in_shadow) =>
        out = RMul(RMul(arg.light.intensity, arg.material.color), arg.material.ambient)

\* a point in shadow that would otherwise get diffuse and specular light
C19_Witness ==
    /\ fop = "returned"
    /\ arg.in_shadow
    /\ arg.light_dot_normal = RInt(1)
    /\ arg.reflect_dot_eye = RInt(1)
    /\ arg.material.diffuse = Rat(9, 10)
    /\ arg.material.specular = Rat(9, 10)
    /\ arg.light.intensity = RInt(2)
    /\ out = Rat(1, 5)

\* =================================================== shade_hit: the lights
\* World.handle_shadows, set by World::new and never changed
handle_shadows == TRUE

\* A plausible slip: surface = color instead of surface = surface + color.
surfaceOverwritten(w, m, ls) ==
    IF ls = <<>> THEN BLACK
    ELSE lighting(m, ls[Len(ls)], ls[Len(ls)].light_dot_normal, ls[Len(ls)].reflect_dot_eye,
                  handle_shadows /\ is_shadowed(w, ls[Len(ls)].ts, ls[Len(ls)].distance))

\* the loop of shade_hit over self.lights, from surface = BLACK.  A light of
\* the model carries, next to its intensity, what the hit's geometry gives
\* for it: the two cosines of lighting, and for is_shadowed the result of
\* every shape's intersect on the ray toward the light and the distance.
RECURSIVE surface(_, _, _)
surface(w, m, ls) ==
    IF ls = <<>> THEN BLACK
    ELSE RAdd(surface(w, m, SubSeq(ls, 1, Len(ls) - 1)),
              lighting(m, ls[Len(ls)], ls[Len(ls)].light_dot_normal,
                       ls[Len(ls)].reflect_dot_eye,
                       handle_shadows /\ is_shadowed(w, ls[Len(ls)].ts, ls[Len(ls)].distance)))

\* a light at distance 2 of the hit, the world's one shape in between or not
SceneLights ==
    [intensity : Intensities, light_dot_normal : {Rat(1, 2), RInt(1)},
     reflect_dot_eye : {RInt(-1)}, ts : {<<<<>>>>, <<<<1>>>>}, distance : {2}]

SurfaceMaterial == Phong(RInt(1), Rat(1, 10), Rat(9, 10), Rat(9, 10), 1)

SurfaceInit ==
    /\ XsIdle
    /\ PrepIdle
    /\ ColorIdle
    /\ shapes = <<Shape(Matte)>>
    /\ lights \in UNION {[1..n -> SceneLights] : n \in 0..(MaxLights + 1)}
    /\ returned = <<>>
    /\ rayTs = <<>>
    /\ wop = "new"
    /\ arg = SurfaceMaterial
    /\ out = <<>>
    /\ fop = "called"

ShadeHitSurface ==
    /\ fop = "called"
    /\ out' = surface(shapes, arg, lights)
    /\ fop' = "returned"
    /\ UNCHANGED <<xs, hitRes, xop, shapes, lights, returned, rayTs, wop, pk, comps>>
    /\ UNCHANGED colorVars
    /\ UNCHANGED arg

SurfaceNext == ShadeHitSurface

SpecSurface == SurfaceInit /\ [][SurfaceNext]_vars

\* ------------------------------------------------------------------ C20
\* the contribution of light i: ambient only when the shape lies between the
\* hit and the light, ambient and diffuse otherwise (no light of the scene
\* gives a specular highlight)
Contribution(m, l) ==
    IF Len(l.ts[1]) > 0 /\ l.ts[1][1] < l.distance
    THEN RMul(RMul(l.intensity, m.color), m.ambient)
    ELSE RAdd(RMul(RMul(l.intensity, m.color), m.ambient),
              RMul(RMul(RMul(l.intensity, m.color), m.diffuse), l.light_dot_normal))

RECURSIVE SumFrom(_, _, _)
SumFrom(m, ls, i) ==
    IF i > Len(ls) THEN [n |-> 0, d |-> 1]
    ELSE RAdd(Contribution(m, ls[i]), SumFrom(m, ls, i + 1))

\* C20: the surface colour of shade_hit is the sum over all lights of the
\* world of each light's lighting contribution under that light's own shadow
\* test: black without lights, every light counted once.
C20_SurfaceSumsEveryLight ==
    fop = "returned" => out = SumFrom(arg, lights, 1)

\* two lights, the first shadowed by the shape, the second not
C20_Witness ==
    /\ fop = "returned"
    /\ Len(lights) = 2
    /\ lights[1].ts = <<<<1>>>> /\ lights[1].intensity = RInt(2)
    /\ lights[2].ts = <<<<>>>> /\ lights[2].intensity = RInt(1)
    /\ lights[2].light_dot_normal = RInt(1)
    /\ out = Rat(12, 10)

\* ----------------------------------------------------------------- C21
\* C21: when several intersections share the smallest non-negative t, hit()
\* returns the one that comes first in insertion order.
C21_TiesKeepFirstInserted ==
    (xop = "hit" /\ hitRes # 0) =>
        \A k \in NonNeg(xs) : xs[k].t = xs[hitRes].t => hitRes <= k

\* ----------------------------------------------------------------- C22
\* C22: for a transparent material with remaining > 0, refracted_color
\* returns BLACK and makes no color_at call when
\* (n1/n2)^2 * (1 - cos_i^2) > 1; otherwise it makes one color_at call, for a
\* ray from the under-point, and when that call has returned it returns
\* without making another.
C22_TotalInternalReflectionIsBlackElseOneCall ==
    [][/\ (/\ AtStartOf("refracted_color")
           /\ MaterialOf(Top).transparency > 0
           /\ Top.remaining > 0)
          => IF BeyondCriticalAngle(Top.comps)
             THEN /\ stack' = Callers
                  /\ ret' = [n |-> 0, d |-> 1]
                  /\ ncalls' = ncalls
             ELSE /\ Len(stack') = Len(stack) + 1
                  /\ stack'[Len(stack')].fn = "color_at"
                  /\ stack'[Len(stack')].origin = "under_point"
                  /\ ncalls' = ncalls + 1
       /\ (/\ phase = "running"
           /\ Top.fn = "refracted_color"
           /\ Top.pc = "color_at")
          => (stack' = Callers /\ ncalls' = ncalls)]_vars

\* a ray enters the glass shape head on, so refracted_color makes its one
\* call (the second color_at); the ray cast from the under-point meets the
\* boundary from inside at a slant, and there refracted_color has returned
\* BLACK without a third call
C22_Witness ==
    /\ phase = "running"
    /\ Len(stack) = 5
    /\ stack[2].fn = "shade_hit" /\ ~BeyondCriticalAngle(stack[2].comps)
    /\ stack[3].fn = "refracted_color" /\ stack[3].remaining > 0
    /\ stack[4].fn = "color_at" /\ stack[4].origin = "under_point"
    /\ stack[5].fn = "shade_hit" /\ stack[5].pc = "refracted"
    /\ stack[5].remaining > 0
    /\ MaterialOf(stack[5]).transparency > 0
    /\ BeyondCriticalAngle(stack[5].comps)
    /\ ret = BLACK
    /\ ncalls = 2

\* ============================================================== schlick
\* The refractive indices (in tenths) and the cosines (in tenths) schlick is
\* applied to.
RefractiveIndices == {10, 15, 20, 25}
CosTenths == 0..10

\* 100 * n2^2 * (1 - sin2_t): the square of 10 * n2 * cos_t
CosTSquare(c) == 100 * c.n2 * c.n2 - c.n1 * c.n1 * (100 - c.cos * c.cos)

\* f64::sqrt is exact in the model where the root is a fraction: the
\* computed hit states with n1 > n2 below the critical angle are those whose
\* cos_t is one.
HasRoot(c) == \E k \in 0..(10 * c.n2) : k * k = CosTSquare(c)

SchlickInputs ==
    {c \in {[NoComps EXCEPT !.n1 = a, !.n2 = b, !.cos = e] :
                a \in RefractiveIndices, b \in RefractiveIndices, e \in CosTenths} :
        \/ c.n1 <= c.n2
        \/ CosTSquare(c) < 0
        \/ HasRoot(c)}

SchlickInit ==
    /\ XsIdle
    /\ WorldIdle
    /\ PrepIdle
    /\ ColorIdle
    /\ arg \in SchlickInputs
    /\ out = <<>>
    /\ fop = "called"

Schlick ==
    /\ fop = "called"
    /\ out' = schlick(arg)
    /\ fop' = "returned"
    /\ UNCHANGED <<xs, hitRes, xop, shapes, lights, returned, rayTs, wop, pk, comps>>
    /\ UNCHANGED colorVars
    /\ UNCHANGED arg

SchlickNext == Schlick

SpecSchlick == SchlickInit /\ [][SchlickNext]_vars

\* ----------------------------------------------------------------- C23
\* the cosine the formula uses: of the transmission angle when n1 > n2, of
\* the incidence angle otherwise
SchlickCos(c) ==
    IF c.n1 > c.n2
    THEN Rat(CHOOSE k \in 0..(10 * c.n2) : k * k = CosTSquare(c), 10 * c.n2)
    ELSE Rat(c.cos, 10)

SchlickR0(c) == RPow(Rat(c.n1 - c.n2, c.n1 + c.n2), 2)

\* C23: schlick returns exactly 1 whenever n1 > n2 and
\* (n1/n2)^2 * (1 - cos^2) > 1, and in every other case
\* r0 + (1 - r0)(1 - c)^5 with r0 = ((n1 - n2)/(n1 + n2))^2; for n1 = n2 that
\* is (1 - cos)^5.
C23_SchlickTwoBranches ==
    fop = "returned" =>
        /\ IF arg.n1 > arg.n2 /\ BeyondCriticalAngle(arg)
           THEN out = [n |-> 1, d |-> 1]
           ELSE out = RAdd(SchlickR0(arg),
                           RMul(RSub(RInt(1), SchlickR0(arg)),
                                RPow(RSub(RInt(1), SchlickCos(arg)), 5)))
        /\ arg.n1 = arg.n2 => out = RPow(RSub(RInt(1), Rat(arg.cos, 10)), 5)

\* leaving the denser medium below the critical angle: n1 = 2.0, n2 = 1.5,
\* cos_i = 0.8, so cos_t = 0.6, r0 = 1/49 and the reflectance is
\* 1/49 + (48/49) * (2/5)^5
C23_Witness ==
    /\ fop = "returned"
    /\ arg.n1 = 20 /\ arg.n2 = 15 /\ arg.cos = 8
    /\ ~BeyondCriticalAngle(arg)
    /\ out = Rat(3125 + 48 * 32, 49 * 3125)

\* ============================================================== cube.rs
\* The cube spans -1..1 on every axis; a coordinate is a whole number of
\* steps of 1/MaxCoord, so the faces lie at -MaxCoord and MaxCoord.
MaxCoord == 2
Coords == (0 - MaxCoord)..MaxCoord

\* f64::max of two values
Max(a, b) == IF a >= b THEN a ELSE b

\* A plausible slip: the y face is tested before the x face.
local_normal_atYFirst(point) ==
    LET maxc == Max(Max(Abs(point[1]), Abs(point[2])), Abs(point[3]))
    IN IF maxc = Abs(point[2]) THEN <<0, point[2], 0>>
       ELSE IF maxc = Abs(point[1]) THEN <<point[1], 0, 0>>
       ELSE <<0, 0, point[3]>>

\* Cube::local_normal_at
local_normal_at(point) ==
    LET maxc == Max(Max(Abs(point[1]), Abs(point[2])), Abs(point[3]))
    IN IF maxc = Abs(point[1]) THEN <<point[1], 0, 0>>
       ELSE IF maxc = Abs(point[2]) THEN <<0, point[2], 0>>
       ELSE <<0, 0, point[3]>>

\* the points of the grid on the cube's surface, where normals are taken
SurfacePoints ==
    {p \in [1..3 -> Coords] : \E a \in 1..3 : Abs(p[a]) = MaxCoord}

CubeInit ==
    /\ XsIdle
    /\ WorldIdle
    /\ PrepIdle
    /\ ColorIdle
    /\ arg \in SurfacePoints
    /\ out = <<>>
    /\ fop = "called"

CubeNormalAt ==
    /\ fop = "called"
    /\ out' = local_normal_at(arg)
    /\ fop' = "returned"
    /\ UNCHANGED <<xs, hitRes, xop, shapes, lights, returned, rayTs, wop, pk, comps>>
    /\ UNCHANGED colorVars
    /\ UNCHANGED arg

CubeNext == CubeNormalAt

SpecCube == CubeInit /\ [][CubeNext]_vars

\* ----------------------------------------------------------------- C24
\* the axes on which the point's coordinate has the largest absolute value
Largest(p) == {a \in 1..3 : \A b \in 1..3 : Abs(p[a]) >= Abs(p[b])}

\* C24: Cube.local_normal_at returns a vector along exactly one axis, the
\* axis whose coordinate has the largest absolute value, with that
\* coordinate's sign; among axes that tie for the largest absolute value x
\* wins over y and y over z.
C24_CubeNormalAlongLargestAxis ==
    fop = "returned" =>
        \E a \in Largest(arg) :
            /\ \A b \in Largest(arg) : a <= b
            /\ out[a] # 0
            /\ (out[a] > 0) <=> (arg[a] > 0)
            /\ \A b \in 1..3 : b # a => out[b] = 0

\* the corner (-1, -1, -1), where all three axes tie, gives -x
C24_Witness ==
    /\ fop = "returned"
    /\ arg = <<0 - MaxCoord, 0 - MaxCoord, 0 - MaxCoord>>
    /\ out[1] < 0 /\ out[2] = 0 /\ out[3] = 0

\* ----------------------------------------------------------------- C25
\* C25: for consecutive positions k and k + 1 of one sorted intersection
\* list, the n2 computed by prepare_computations at k equals the n1 computed
\* at k + 1.
C25_MediumEnteredIsMediumLeft ==
    wop = "following" =>
        /\ out.object_id = xs[pk - 1].object_id
        /\ comps.object_id = xs[pk].object_id
        /\ out.n2 = comps.n1

\* between the entry of an inner shape and the exit of the outer one the ray
\* is in the inner shape, which is neither air nor the medium before
C25_Witness ==
    /\ wop = "following"
    /\ pk = 3
    /\ xs[1].object_id = 0
    /\ xs[2].object_id = 1
    /\ xs[3].object_id = 0
    /\ out.n1 = 15
    /\ out.n2 = 20
    /\ comps.n1 = 20

\* ----------------------------------------------------------------- C26
\* the position at which a shape held after intersections 1..j was entered
EntryOf(v, j, id) == CHOOSE q \in OpenAfter(v, j) : v[q].object_id = id

\* the container list after intersections 1..j holds exactly the shapes
\* entered and not yet exited, each once, in the order they were entered
HeldInEntryOrder(v, j) ==
    LET c == containersAfter(v, j)
    IN /\ \A a, b \in 1..Len(c) : a # b => c[a] # c[b]
       /\ {c[a] : a \in 1..Len(c)} = {v[q].object_id : q \in OpenAfter(v, j)}
       /\ \A a, b \in 1..Len(c) :
             a < b => EntryOf(v, j, c[a]) < EntryOf(v, j, c[b])

EachTwice(v) ==
    \A q \in 1..Len(v) : Cardinality(Occ(v, Len(v), v[q].object_id)) = 2

\* C26: while prepare_computations walks the intersections the container
\* list never holds a shape index twice and keeps the entry order of the
\* shapes it still holds; if every shape index occurs exactly twice in the
\* list, the container list is empty after the last intersection and n2 at
\* the last intersection is 1.0.
C26_ContainersHoldOpenShapesInOrder ==
    /\ \A j \in 0..Len(xs) : HeldInEntryOrder(xs, j)
    /\ EachTwice(xs) =>
          /\ containersAfter(xs, Len(xs)) = <<>>
          /\ (wop = "prepare" /\ pk = Len(xs)) => comps.n2 = 10

\* two overlapping shapes: the first is exited while the second, entered
\* later, is still held, and the walk ends in air
C26_Witness ==
    /\ wop = "prepare"
    /\ Len(xs) = 4
    /\ pk = 4
    /\ xs[1].object_id = 0 /\ xs[2].object_id = 1
    /\ xs[3].object_id = 0 /\ xs[4].object_id = 1
    /\ containersAfter(xs, 2) = <<0, 1>>
    /\ containersAfter(xs, 3) = <<1>>
    /\ comps.n1 = 20
    /\ comps.n2 = 10

\* ----------------------------------------------------------------- C27
\* the color_at activations of the call tree that are on the stack
ColorAtFrames == {j \in 1..Len(stack) : stack[j].fn = "color_at"}

\* C27: in the call tree of a top-level color_at(ray, d) with d >= 0, every
\* nested color_at call receives a budget between 0 and d - 1, the budget
\* decreases by exactly one per nesting level, the nesting depth never
\* exceeds d + 1 and the number of color_at calls never exceeds 2^(d+1) - 1.
C27_CallTreeIsBoundedByBudget ==
    (phase = "running" /\ stack[1].remaining >= 0) =>
        /\ \A j \in ColorAtFrames :
              /\ j > 1 => stack[j].remaining \in 0..(stack[1].remaining - 1)
              /\ stack[j].remaining
                    = stack[1].remaining - Cardinality({i \in ColorAtFrames : i < j})
        /\ Cardinality(ColorAtFrames) <= stack[1].remaining + 1
        /\ ncalls <= 2 ^ (stack[1].remaining + 1) - 1

\* the full tree: at every level both the reflected and the refracted ray
\* recurse, and the last of the 2^(d+1) - 1 calls is on the stack at depth
\* d + 1 with budget 0
C27_Witness ==
    /\ phase = "running"
    /\ stack[1].remaining = MaxDepth
    /\ Cardinality(ColorAtFrames) = MaxDepth + 1
    /\ Top.fn = "color_at"
    /\ Top.remaining = 0
    /\ ncalls = 2 ^ (MaxDepth + 1) - 1

\* ----------------------------------------------------------------- C28
\* shade_hit has both branch colours and is about to combine them
Combining ==
    /\ phase = "running"
    /\ Top.fn = "shade_hit"
    /\ Top.pc = "refracted"

\* C28: with a budget <= 0, color_at for a ray with a hit returns exactly the
\* local surface colour of the hit (the sum of lighting over the lights),
\* reflected and refracted both being BLACK; and for a hit material that is
\* neither reflective nor transparent it returns that colour for every
\* budget.
C28_ExhaustionKeepsSurfaceColor ==
    [][/\ (/\ Combining
           /\ \/ Top.remaining <= 0
              \/ (MaterialOf(Top).reflective = 0 /\ MaterialOf(Top).transparency = 0))
          => (/\ Top.reflected = [n |-> 0, d |-> 1]
              /\ ret = [n |-> 0, d |-> 1]
              /\ \E lit \in [1..Len(lights) -> LightingChoices] :
                    Top.surface = SumOf(lit)
              /\ stack' = Callers
              /\ ret' = Top.surface)
       /\ (/\ phase = "running"
           /\ Top.fn = "color_at"
           /\ Top.pc = "shade_hit")
          => (stack' = Callers /\ ret' = ret /\ ncalls' = ncalls)]_vars

\* a reflected ray with budget 0 has met a shape: its color_at holds the lit
\* surface colour that shade_hit returned, and no third call was made
C28_Witness ==
    /\ phase = "running"
    /\ Len(stack) = 4
    /\ stack[2].fn = "shade_hit" /\ MaterialOf(stack[2]).reflective > 0
    /\ stack[3].fn = "reflected_color"
    /\ Top.fn = "color_at"
    /\ Top.pc = "shade_hit"
    /\ Top.remaining = 0
    /\ ret = RInt(Len(lights))
    /\ ret # BLACK
    /\ ncalls = 2

\* ======================================= shade_hit: the blend of the branches
\* shade_hit on a shape that is reflective and transparent, as a function of
\* the computed hit state, the budget and the colours met: the surface
\* colour, what reflected_color returned, and the colour color_at finds
\* along the refracted ray if that ray is cast.
BlendMaterial == MirrorGlass

BlendInputs ==
    [comps : SchlickInputs,
     remaining : 0..1,
     surface : {RInt(1)},
     reflected : {BLACK, Rat(1, 2)},
     beyond : {RInt(1)}]

BlendInit ==
    /\ XsIdle
    /\ WorldIdle
    /\ PrepIdle
    /\ ColorIdle
    /\ arg \in BlendInputs
    /\ out = <<>>
    /\ fop = "called"

\* refracted_color: the two early returns, else the scaled colour of the
\* refracted ray; test records what the total-internal-reflection test gives
\* for this hit state
BlendRefracted ==
    /\ fop = "called"
    /\ \E tir \in {total_internal_reflection(arg.comps)} :
          out' = [test |-> tir,
                  refracted |->
                      IF refracted_stops(BlendMaterial, arg.remaining) THEN BLACK
                      ELSE IF tir THEN BLACK
                      ELSE scale_transparency(BlendMaterial, arg.beyond)]
    /\ fop' = "refracted"
    /\ UNCHANGED <<xs, hitRes, xop, shapes, lights, returned, rayTs, wop, pk, comps>>
    /\ UNCHANGED colorVars
    /\ UNCHANGED arg

\* shade_hit: reflectance = comps.schlick() and the blend; early records
\* whether schlick returned through its first return
BlendReturn ==
    /\ fop = "refracted"
    /\ out' = [test |-> out.test,
               refracted |-> out.refracted,
               early |-> schlickReturnsEarly(arg.comps),
               reflectance |-> schlick(arg.comps),
               result |-> shade_result(BlendMaterial, arg.comps, arg.surface,
                                       arg.reflected, out.refracted)]
    /\ fop' = "returned"
    /\ UNCHANGED <<xs, hitRes, xop, shapes, lights, returned, rayTs, wop, pk, comps>>
    /\ UNCHANGED colorVars
    /\ UNCHANGED arg

BlendNext == BlendRefracted \/ BlendReturn

SpecBlend == BlendInit /\ [][BlendNext]_vars

\* ----------------------------------------------------------------- C29
\* C29: for one computed hit state, schlick returns 1.0 through its
\* total-internal-reflection branch if and only if the test sin2_t > 1 of
\* refracted_color holds; and then, for a material that is reflective and
\* transparent, refracted_color gives BLACK and shade_hit is
\* surface + reflected, with no refracted share.
C29_SchlickAndRefractionAgree ==
    fop = "returned" =>
        /\ out.early <=> out.test
        /\ out.test <=> BeyondCriticalAngle(arg.comps)
        /\ out.test =>
              /\ out.reflectance = [n |-> 1, d |-> 1]
              /\ out.refracted = [n |-> 0, d |-> 1]
              /\ out.result = RAdd(arg.surface, arg.reflected)

\* inside glass at a slant beyond the critical angle, with budget left and a
\* reflected colour: both tests fire and the result is surface + reflected
C29_Witness ==
    /\ fop = "returned"
    /\ arg.comps.n1 = 15 /\ arg.comps.n2 = 10 /\ arg.comps.cos = 6
    /\ arg.remaining = 1
    /\ arg.reflected = Rat(1, 2)
    /\ out.early /\ out.test
    /\ out.result = Rat(3, 2)

====
